---- MODULE Spec2Model ----
(***************************************************************************)
(* The mutation resolvers of src/src/resolvers/Mutation.js as a state      *)
(* machine.  The persistence store (ctx.db), the payment gateway (stripe)  *)
(* and the request slots (one per in-flight resolver call) are the state.  *)
(* Every `await` of a resolver ends an atomic step: a store query, a store *)
(* write and a gateway call each happen in a step of their own, so calls   *)
(* of different requests interleave exactly where the event loop lets      *)
(* them.  Selection sets (`info`) are not modelled: a query returns the    *)
(* fields the resolver reads.                                              *)
(***************************************************************************)
EXTENDS Integers, Sequences, FiniteSets, TLC

\* ------------------------------------------------------------------ bounds
\* The number of requests issued in a behaviour (it caps every id counter,
\* every quantity and the number of orders and charges): with every resolver
\* in play, with the item and permission resolvers only, and with the cart
\* and checkout resolvers only.
MaxRequests == 2
MaxItemRequests == 3
MaxCartRequests == 3
\* The requests issued after a cart has been filled.
MaxOrderRequests == 2
\* The requests issued with the password-reset resolvers only, and the clock
\* steps in a behaviour.
MaxResetRequests == 3
MaxTicks == 5

\* ------------------------------------------------------------ input domains
Users == {"u1", "u2"}
\* ctx.request.userId of an anonymous request (undefined in the code).
NoId == "none"
Callers == Users \cup {NoId}
\* The two request slots that may be in flight at once (the slots are alike).
Procs == {"p1", "p2"}
\* An id no row carries (a lookup by it returns null).
NoRow == 0

SignupPermissions == {"USER", "ITEMCREATE", "ITEMUPDATE", "ITEMDELETE"}
AdminPermissions == {"ADMIN", "PERMISSIONUPDATE"}
\* args.permissions of updatePermissions
PermissionChoices == {SignupPermissions, {"USER"}, {"USER", "PERMISSIONUPDATE"}}
\* args of createItem, and the updates of updateItem (args without id)
NewItemData == [title |-> "t3", price |-> 700]
UpdateChoices == {[price |-> 700], [title |-> "t2"]}

\* args.email of requestReset: that of the first user, or one of no user
NoEmail == "nobody"
EmailInputs == {"u1", NoEmail}
\* args.password / args.confirmPassword and args.oldPassword of resetPassword
NewPasswords == {"pw2", "pw3"}
OldPasswords == {"pw1", "pw2"}
\* A reset token no requestReset has issued.
NoToken == 0

\* const resetTokenExpiry = Date.now() + 3600000
ResetTokenLifetime == 3600000
\* resetTokenExpiry_gte: Date.now() - 3600000
ResetTokenWindow == 3600000
\* The clock moves by half an hour at a time.
ClockStep == ResetTokenLifetime \div 2

GuardErrors == {"NotAuthenticated", "OwnershipDenied", "PermissionDenied"}

VARIABLES
  items,       \* store: Item rows [id, title, price, user]
  perms,       \* store: User.permissions, by user id
  cartItems,   \* store: CartItem rows [id, user, item, quantity]
  orders,      \* store: Order rows [id, user, total, charge, items]
  charges,     \* gateway: the charges made, in order, [id, amount, source, covers]
  nextItemId,  \* store: id of the next Item row
  nextCartId,  \* store: id of the next CartItem row
  procs,       \* the request slots: resolver, position, ctx, args, locals
  left,        \* the requests the clients may still send
  seqAdds,     \* history: by <<user, item>>, the addToCart calls completed
               \* one after the other from an empty pair, or Dirty
  accounts,    \* store: User rows [password, resetToken, resetTokenExpiry]
  nextToken,   \* randomBytes: the next reset token (each is new)
  now,         \* Date.now(), in milliseconds
  spent        \* history: the reset tokens by which a password was set

vars == <<items, perms, cartItems, orders, charges, nextItemId, nextCartId,
          procs, left, seqAdds, accounts, nextToken, now, spent>>

\* What the password-reset resolvers read and write, and what they leave.
authVars == <<accounts, nextToken, now, spent>>
shopVars == <<items, perms, cartItems, orders, charges, nextItemId, nextCartId,
              seqAdds>>

\* The mark of a pair whose calls overlapped or whose row was removed.
Dirty == 0 - 1

\* ----------------------------------------------------------------- helpers
\* A request slot with no request in it.
Idle ==
  [op |-> "idle", pc |-> "idle", userId |-> NoId, user |-> {},
   id |-> NoRow, data |-> <<>>, permissions |-> {}, target |-> NoId,
   item |-> {}, currentUser |-> {}, existing |-> {}, cartItem |-> {},
   cart |-> <<>>, charge |-> {}, found |-> {}, gateway |-> "", result |-> "",
   writes |-> 0]

RECURSIVE RowsById(_)
\* The rows of S as the store returns them: in id order.
RowsById(S) ==
  IF S = {} THEN <<>>
  ELSE LET r == CHOOSE x \in S : \A y \in S : x.id <= y.id
       IN <<r>> \o RowsById(S \ {r})

\* { ...row, ...updates }: the fields of updates override those of row.
Merge(row, updates) ==
  [f \in DOMAIN row |-> IF f \in DOMAIN updates THEN updates[f] ELSE row[f]]

\* utils.signInError / itemOwnershipError / hasPermission throw; a throw ends
\* the request with the error's kind as its result.
Fail(p, kind) == [procs EXCEPT ![p].pc = "failed", ![p].result = kind]

\* hasPermission(user, permissionsNeeded): some needed tag is granted.
HasPermission(granted, needed) == granted \cap needed # {}

\* bcrypt.hash(password, 10): the stored form of a password.
Hash(password) == <<"bcrypt", password>>

\* ------------------------------------------------------------------- Init
\* Both users signed up with the password pw1; no reset was requested.
InitAuth ==
  /\ accounts = [u \in Users |->
                  [password |-> Hash("pw1"), resetToken |-> {},
                   resetTokenExpiry |-> {}]]
  /\ nextToken = 1
  /\ now = 0
  /\ spent = {}

\* Two users (the second an administrator), an item of each, empty carts.
InitStore ==
  /\ items = {[id |-> 1, title |-> "t1", price |-> 500, user |-> "u1"],
              [id |-> 2, title |-> "t1", price |-> 300, user |-> "u2"]}
  /\ perms = [u \in Users |->
               IF u = "u1" THEN SignupPermissions
               ELSE SignupPermissions \cup {"ADMIN"}]
  /\ cartItems = {}
  /\ orders = {}
  /\ charges = <<>>
  /\ nextItemId = 3
  /\ nextCartId = 1
  /\ procs = [p \in Procs |-> Idle]
  /\ seqAdds = [x \in {} |-> 0]
  /\ InitAuth

Init == InitStore /\ left = MaxRequests
InitItems == InitStore /\ left = MaxItemRequests
InitCart == InitStore /\ left = MaxCartRequests
InitReset == InitStore /\ left = MaxResetRequests

\* The store after u1 has put item 1 twice and item 2 once in the cart, by
\* three addToCart calls one after the other.
InitOrders ==
  /\ items = {[id |-> 1, title |-> "t1", price |-> 500, user |-> "u1"],
              [id |-> 2, title |-> "t1", price |-> 300, user |-> "u2"]}
  /\ perms = [u \in Users |->
               IF u = "u1" THEN SignupPermissions
               ELSE SignupPermissions \cup {"ADMIN"}]
  /\ cartItems = {[id |-> 1, user |-> "u1", item |-> 1, quantity |-> 2],
                  [id |-> 2, user |-> "u1", item |-> 2, quantity |-> 1]}
  /\ orders = {}
  /\ charges = <<>>
  /\ nextItemId = 3
  /\ nextCartId = 3
  /\ procs = [p \in Procs |-> Idle]
  /\ seqAdds = [x \in {<<"u1", 1>>, <<"u1", 2>>} |-> IF x[2] = 1 THEN 2 ELSE 1]
  /\ left = MaxOrderRequests
  /\ InitAuth

\* --------------------------------------------------------------- requests
\* args.id of a request: the id of a row of the store, or of none.
ItemIdInputs == {r.id : r \in items} \cup {NoRow}
CartIdInputs == {r.id : r \in cartItems} \cup {NoRow}

\* A request may arrive at slot p: the slot is free, and the first free one.
Arrives(p) ==
  /\ procs[p].pc = "idle"
  /\ p = "p1" \/ procs["p1"].pc # "idle"
  /\ left > 0

\* The slot of a request of `caller` for resolver `op`.
Request(op, caller) == [Idle EXCEPT !.op = op, !.userId = caller]

\* A request arrives for a resolver that reads ctx.request.user: the
\* AuthContext provider fills ctx.request.userId and ctx.request.user (the
\* caller's record as stored at that moment).
Begin(p) ==
  /\ Arrives(p)
  /\ \E caller \in Callers :
     \E r \in [op : {"createItem"}, id : {NoRow}, data : {NewItemData}]
              \cup [op : {"updateItem"}, id : ItemIdInputs, data : UpdateChoices]
              \cup [op : {"deleteItem"}, id : ItemIdInputs, data : {<<>>}] :
       procs' = [procs EXCEPT ![p] =
         [Request(r.op, caller) EXCEPT
            !.pc = "start", !.id = r.id, !.data = r.data,
            !.user = IF caller = NoId THEN {} ELSE perms[caller]]]
  /\ left' = left - 1
  /\ UNCHANGED <<items, perms, cartItems, orders, charges, nextItemId,
                 nextCartId, seqAdds>>
  /\ UNCHANGED authVars

\* The response is sent and the slot is free again.
Return(p) ==
  /\ procs[p].pc \in {"done", "failed"}
  /\ procs' = [procs EXCEPT ![p] = Idle]
  /\ UNCHANGED <<items, perms, cartItems, orders, charges, nextItemId,
                 nextCartId, left, seqAdds>>
  /\ UNCHANGED authVars

\* ------------------------------------------------------------- createItem
CreateItem(p) ==
  LET c == procs[p] IN
  /\ c.op = "createItem" /\ c.pc = "start"
  /\ IF c.userId = NoId
       THEN /\ procs' = Fail(p, "NotAuthenticated")
            /\ UNCHANGED <<items, nextItemId>>
     ELSE IF ~HasPermission(c.user, {"ITEMCREATE"})
       THEN /\ procs' = Fail(p, "PermissionDenied")
            /\ UNCHANGED <<items, nextItemId>>
     ELSE /\ items' = items \cup
                      {[id |-> nextItemId, title |-> c.data.title,
                        price |-> c.data.price, user |-> c.userId]}
          /\ nextItemId' = nextItemId + 1
          /\ procs' = [procs EXCEPT ![p].pc = "done", ![p].result = "ok",
                                    ![p].writes = @ + 1]
  /\ UNCHANGED <<perms, cartItems, orders, charges, nextCartId, left, seqAdds>>
  /\ UNCHANGED authVars

\* ------------------------------------------------------------- updateItem
\* const item = await ctx.db.query.item({ where }, ...)
FetchItem(p) ==
  /\ procs[p].op \in {"updateItem", "deleteItem"} /\ procs[p].pc = "start"
  /\ procs' = [procs EXCEPT ![p].pc = "fetched",
                            ![p].item = {r \in items : r.id = procs[p].id}]
  /\ UNCHANGED <<items, perms, cartItems, orders, charges, nextItemId,
                 nextCartId, left, seqAdds>>
  /\ UNCHANGED authVars

\* Mutant: the ownership comparison left out.
OwnsItemAlways(item, userId) == TRUE

\* item.user.id === ctx.request.userId
OwnsItem(item, userId) == item.user = userId

\* Mutant: the update issued before the checks.
UpdateItemWriteFirst(p) ==
  LET c == procs[p] IN
  /\ c.op = "updateItem" /\ c.pc = "fetched"
  /\ items' = {IF r.id = c.id THEN Merge(r, c.data) ELSE r : r \in items}
  /\ procs' = [procs EXCEPT
       ![p].writes = @ + 1,
       ![p].pc = IF c.item = {} \/ \E r \in c.item : r.user # c.userId
                   THEN "failed" ELSE "done",
       ![p].result = IF c.item = {} THEN "TypeError"
                     ELSE IF \E r \in c.item : r.user # c.userId
                       THEN "OwnershipDenied" ELSE "ok"]
  /\ UNCHANGED <<perms, cartItems, orders, charges, nextItemId, nextCartId,
                 left, seqAdds>>
  /\ UNCHANGED authVars

\* The ownership and permission checks on the fetched item, then the update.
UpdateItem(p) ==
  LET c == procs[p] IN
  /\ c.op = "updateItem" /\ c.pc = "fetched"
  /\ IF c.item = {}
       THEN /\ procs' = Fail(p, "TypeError")
            /\ UNCHANGED items
     ELSE LET item == CHOOSE r \in c.item : TRUE IN
       IF ~OwnsItem(item, c.userId)
         THEN /\ procs' = Fail(p, "OwnershipDenied")
              /\ UNCHANGED items
       ELSE IF ~HasPermission(c.user, {"ITEMUPDATE"})
         THEN /\ procs' = Fail(p, "PermissionDenied")
              /\ UNCHANGED items
       ELSE IF \A r \in items : r.id # c.id
         THEN /\ procs' = Fail(p, "PersistenceError")
              /\ UNCHANGED items
       ELSE /\ items' = {IF r.id = c.id THEN Merge(r, c.data) ELSE r : r \in items}
            /\ procs' = [procs EXCEPT ![p].pc = "done", ![p].result = "ok",
                                      ![p].writes = @ + 1]
  /\ UNCHANGED <<perms, cartItems, orders, charges, nextItemId, nextCartId,
                 left, seqAdds>>
  /\ UNCHANGED authVars

\* ------------------------------------------------------------- deleteItem
DeleteItem(p) ==
  LET c == procs[p] IN
  /\ c.op = "deleteItem" /\ c.pc = "fetched"
  /\ IF c.item = {}
       THEN /\ procs' = Fail(p, "TypeError")
            /\ UNCHANGED items
     ELSE LET item == CHOOSE r \in c.item : TRUE IN
       IF ~OwnsItem(item, c.userId)
         THEN /\ procs' = Fail(p, "OwnershipDenied")
              /\ UNCHANGED items
       ELSE IF ~HasPermission(c.user, {"ITEMDELETE"})
         THEN /\ procs' = Fail(p, "PermissionDenied")
              /\ UNCHANGED items
       ELSE IF \A r \in items : r.id # c.id
         THEN /\ procs' = Fail(p, "PersistenceError")
              /\ UNCHANGED items
       ELSE /\ items' = {r \in items : r.id # c.id}
            /\ procs' = [procs EXCEPT ![p].pc = "done", ![p].result = "ok",
                                      ![p].writes = @ + 1]
  /\ UNCHANGED <<perms, cartItems, orders, charges, nextItemId, nextCartId,
                 left, seqAdds>>
  /\ UNCHANGED authVars

\* ------------------------------------------------------ updatePermissions
\* signInError() for an anonymous caller, else
\* const currentUser = await ctx.db.query.user({ where: { id: userId } })
FetchCurrentUser(p) ==
  /\ Arrives(p)
  /\ \E caller \in Callers, target \in Users, permissions \in PermissionChoices :
       LET c == [Request("updatePermissions", caller) EXCEPT
                   !.target = target, !.permissions = permissions]
       IN procs' = [procs EXCEPT ![p] =
            IF caller = NoId
              THEN [c EXCEPT !.pc = "failed", !.result = "NotAuthenticated"]
              ELSE [c EXCEPT !.pc = "fetched", !.currentUser = perms[caller]]]
  /\ left' = left - 1
  /\ UNCHANGED <<items, perms, cartItems, orders, charges, nextItemId,
                 nextCartId, seqAdds>>
  /\ UNCHANGED authVars

\* Mutant: the new tags merged into the old ones.
SetPermissionsMerged(old, new) == old \cup new

\* permissions: { set: args.permissions }
SetPermissions(old, new) == new

UpdatePermissions(p) ==
  LET c == procs[p] IN
  /\ c.op = "updatePermissions" /\ c.pc = "fetched"
  /\ IF ~HasPermission(c.currentUser, AdminPermissions)
       THEN /\ procs' = Fail(p, "PermissionDenied")
            /\ UNCHANGED perms
     ELSE /\ perms' = [perms EXCEPT ![c.target] = SetPermissions(@, c.permissions)]
          /\ procs' = [procs EXCEPT ![p].pc = "done", ![p].result = "ok",
                                    ![p].writes = @ + 1]
  /\ UNCHANGED <<items, cartItems, orders, charges, nextItemId, nextCartId,
                 left, seqAdds>>
  /\ UNCHANGED authVars

\* --------------------------------------------------------------- addToCart
\* The calls counted for the pair (u, i): none before the first is recorded.
Adds(hist, u, i) == IF <<u, i>> \in DOMAIN hist THEN hist[<<u, i>>] ELSE 0

SetAdds(hist, u, i, v) ==
  [x \in DOMAIN hist \cup {<<u, i>>} |-> IF x = <<u, i>> THEN v ELSE hist[x]]

\* The removal of CartItem rows ends the history of their pairs.
Spoil(hist, rows) ==
  [x \in DOMAIN hist \cup {<<r.user, r.item>> : r \in rows} |->
     IF \E r \in rows : x = <<r.user, r.item>> THEN Dirty ELSE hist[x]]

\* One more addToCart on (u, i) has completed.
Counted(hist, u, i) ==
  SetAdds(hist, u, i, IF Adds(hist, u, i) = Dirty THEN Dirty ELSE Adds(hist, u, i) + 1)

\* signInError() for an anonymous caller, else
\* const [existingCartItem] = await ctx.db.query.cartItems({ where: ... })
FetchExisting(p) ==
  /\ Arrives(p)
  /\ \E caller \in Callers, id \in ItemIdInputs :
       LET c == [Request("addToCart", caller) EXCEPT !.id = id] IN
       IF caller = NoId
         THEN /\ procs' = [procs EXCEPT ![p] =
                   [c EXCEPT !.pc = "failed", !.result = "NotAuthenticated"]]
              /\ UNCHANGED seqAdds
         ELSE /\ procs' = [procs EXCEPT ![p] =
                   [c EXCEPT !.pc = "fetched",
                      !.existing = {r \in cartItems : r.user = caller /\ r.item = id}]]
              \* another addToCart on the pair has read and not yet written:
              \* the two calls are not one after the other
              /\ seqAdds' = IF \E q \in Procs \ {p} :
                                 /\ procs[q].op = "addToCart" /\ procs[q].pc = "fetched"
                                 /\ procs[q].userId = caller /\ procs[q].id = id
                              THEN SetAdds(seqAdds, caller, id, Dirty)
                              ELSE seqAdds
  /\ left' = left - 1
  /\ UNCHANGED <<items, perms, cartItems, orders, charges, nextItemId, nextCartId>>
  /\ UNCHANGED authVars

\* Mutant: the increment forgotten.
NewQuantityStuck(quantity) == quantity

\* quantity: existingCartItem.quantity + 1
NewQuantity(quantity) == quantity + 1

\* The quantity of a CartItem created without one.
DefaultQuantity == 1

\* Mutant: a store with no uniqueness constraint.
UniquePairUnchecked(rows, user, item) == TRUE

\* The store's uniqueness constraint on a CartItem's (user, item) pair.
UniquePair(rows, user, item) ==
  \A r \in rows : ~(r.user = user /\ r.item = item)

\* item: { connect: { id } } needs the Item row to exist.
CanConnectItem(item) == \E r \in items : r.id = item

AddToCart(p) ==
  LET c == procs[p] IN
  /\ c.op = "addToCart" /\ c.pc = "fetched"
  /\ IF c.existing # {}
       THEN LET e == CHOOSE x \in c.existing : \A y \in c.existing : x.id <= y.id IN
            IF \E r \in cartItems : r.id = e.id
              THEN /\ cartItems' = {IF r.id = e.id
                                      THEN [r EXCEPT !.quantity = NewQuantity(e.quantity)]
                                      ELSE r : r \in cartItems}
                   /\ seqAdds' = Counted(seqAdds, c.userId, c.id)
                   /\ procs' = [procs EXCEPT ![p].pc = "done", ![p].result = "ok",
                                             ![p].writes = @ + 1]
                   /\ UNCHANGED nextCartId
              ELSE /\ procs' = Fail(p, "PersistenceError")
                   /\ UNCHANGED <<cartItems, nextCartId, seqAdds>>
       ELSE IF CanConnectItem(c.id) /\ UniquePair(cartItems, c.userId, c.id)
              THEN /\ cartItems' = cartItems \cup
                        {[id |-> nextCartId, user |-> c.userId, item |-> c.id,
                          quantity |-> DefaultQuantity]}
                   /\ nextCartId' = nextCartId + 1
                   /\ seqAdds' = Counted(seqAdds, c.userId, c.id)
                   /\ procs' = [procs EXCEPT ![p].pc = "done", ![p].result = "ok",
                                             ![p].writes = @ + 1]
              ELSE /\ procs' = Fail(p, "PersistenceError")
                   /\ UNCHANGED <<cartItems, nextCartId, seqAdds>>
  /\ UNCHANGED <<items, perms, orders, charges, nextItemId, left>>
  /\ UNCHANGED authVars

\* ---------------------------------------------------------- removeFromCart
\* const cartItem = await ctx.db.query.cartItem({ where: { id: args.id } }, ...)
FetchCartItem(p) ==
  /\ Arrives(p)
  /\ \E caller \in Callers, id \in CartIdInputs :
       procs' = [procs EXCEPT ![p] =
         [Request("removeFromCart", caller) EXCEPT
            !.pc = "fetched", !.id = id,
            !.cartItem = {r \in cartItems : r.id = id}]]
  /\ left' = left - 1
  /\ UNCHANGED <<items, perms, cartItems, orders, charges, nextItemId,
                 nextCartId, seqAdds>>
  /\ UNCHANGED authVars

\* Mutant: the owner of the fetched row not compared with the caller.
RemoveFromCartAnyOwner(p) ==
  LET c == procs[p] IN
  /\ c.op = "removeFromCart" /\ c.pc = "fetched"
  /\ IF c.cartItem = {} \/ \A r \in cartItems : r.id # c.id
       THEN /\ procs' = Fail(p, "NotFound")
            /\ UNCHANGED <<cartItems, seqAdds>>
       ELSE /\ cartItems' = {r \in cartItems : r.id # c.id}
            /\ seqAdds' = Spoil(seqAdds, {r \in cartItems : r.id = c.id})
            /\ procs' = [procs EXCEPT ![p].pc = "done", ![p].result = "ok",
                                      ![p].writes = @ + 1]
  /\ UNCHANGED <<items, perms, orders, charges, nextItemId, nextCartId, left>>
  /\ UNCHANGED authVars

\* 'No cart item found' for no row, the ownership check on the fetched row,
\* then await ctx.db.mutation.deleteCartItem(...)
RemoveFromCart(p) ==
  LET c == procs[p] IN
  /\ c.op = "removeFromCart" /\ c.pc = "fetched"
  /\ IF c.cartItem = {}
       THEN /\ procs' = Fail(p, "NotFound")
            /\ UNCHANGED <<cartItems, seqAdds>>
     ELSE LET row == CHOOSE r \in c.cartItem : TRUE IN
       IF row.user # c.userId
         THEN /\ procs' = Fail(p, "OwnershipDenied")
              /\ UNCHANGED <<cartItems, seqAdds>>
       ELSE IF \A r \in cartItems : r.id # c.id
         THEN /\ procs' = Fail(p, "PersistenceError")
              /\ UNCHANGED <<cartItems, seqAdds>>
       ELSE /\ cartItems' = {r \in cartItems : r.id # c.id}
            /\ seqAdds' = Spoil(seqAdds, {r \in cartItems : r.id = c.id})
            /\ procs' = [procs EXCEPT ![p].pc = "done", ![p].result = "ok",
                                      ![p].writes = @ + 1]
  /\ UNCHANGED <<items, perms, orders, charges, nextItemId, nextCartId, left>>
  /\ UNCHANGED authVars

\* ------------------------------------------------------------- createOrder
\* user.cart of the query: each CartItem of the user with its Item embedded
\* (item is null, here the empty set, when the Item row is gone).
CartOf(userId) ==
  LET rows == RowsById({r \in cartItems : r.user = userId})
  IN [k \in DOMAIN rows |->
        [id |-> rows[k].id, quantity |-> rows[k].quantity,
         item |-> {i \in items : i.id = rows[k].item}]]

\* Mutant: a checkout of an empty cart refused.
FetchCartRefusesEmpty(p) ==
  /\ Arrives(p)
  /\ \E caller \in Callers :
       LET c == Request("createOrder", caller) IN
       procs' = [procs EXCEPT ![p] =
         IF caller = NoId
           THEN [c EXCEPT !.pc = "failed", !.result = "NotAuthenticated"]
         ELSE IF CartOf(caller) = <<>>
           THEN [c EXCEPT !.pc = "failed", !.result = "EmptyCart"]
           ELSE [c EXCEPT !.pc = "fetched", !.cart = CartOf(caller)]]
  /\ left' = left - 1
  /\ UNCHANGED <<items, perms, cartItems, orders, charges, nextItemId,
                 nextCartId, seqAdds>>
  /\ UNCHANGED authVars

\* signInError() for an anonymous caller, else const user = await ctx.db.query.user(...)
FetchCart(p) ==
  /\ Arrives(p)
  /\ \E caller \in Callers :
       LET c == Request("createOrder", caller) IN
       procs' = [procs EXCEPT ![p] =
         IF caller = NoId
           THEN [c EXCEPT !.pc = "failed", !.result = "NotAuthenticated"]
           ELSE [c EXCEPT !.pc = "fetched", !.cart = CartOf(caller)]]
  /\ left' = left - 1
  /\ UNCHANGED <<items, perms, cartItems, orders, charges, nextItemId,
                 nextCartId, seqAdds>>
  /\ UNCHANGED authVars

TheItem(entry) == CHOOSE i \in entry.item : TRUE

RECURSIVE CartAmountNoQuantity(_)
\* Mutant: the prices summed without the quantities.
CartAmountNoQuantity(cart) ==
  IF cart = <<>> THEN 0
  ELSE CartAmountNoQuantity(SubSeq(cart, 1, Len(cart) - 1))
       + TheItem(cart[Len(cart)]).price

RECURSIVE CartAmount(_)
\* user.cart.reduce((total, cartItem) => total + cartItem.item.price * cartItem.quantity, 0)
CartAmount(cart) ==
  IF cart = <<>> THEN 0
  ELSE CartAmount(SubSeq(cart, 1, Len(cart) - 1))
       + TheItem(cart[Len(cart)]).price * cart[Len(cart)].quantity

\* user.cart.map(cartItem => cartItem.id)
CartItemIds(cart) == {cart[k].id : k \in DOMAIN cart}

\* The gateway makes the charge and answers with it.
ChargeSucceeds(p) ==
  LET c == procs[p]
      charge == [id |-> Len(charges) + 1, amount |-> CartAmount(c.cart)]
  IN /\ charges' = Append(charges,
                     [id |-> charge.id, amount |-> charge.amount,
                      source |-> c.userId, covers |-> CartItemIds(c.cart)])
     /\ procs' = [procs EXCEPT ![p].pc = "charged", ![p].gateway = "ok",
                               ![p].charge = {charge}]

\* Mutant: the gateway's error swallowed, the checkout going on.
ChargeFailsSwallowed(p) ==
  /\ procs' = [procs EXCEPT ![p].pc = "charged", ![p].gateway = "error",
                            ![p].charge = {[id |-> 0, amount |-> CartAmount(procs[p].cart)]}]
  /\ UNCHANGED charges

\* Mutant: the call made again after the gateway's error.
ChargeFailsRetried(p) ==
  /\ procs' = [procs EXCEPT ![p].gateway = "error"]
  /\ UNCHANGED charges

\* The gateway answers with an error: the await throws.
ChargeFails(p) ==
  /\ procs' = [procs EXCEPT ![p].pc = "failed", ![p].gateway = "error",
                            ![p].result = "PaymentFailed"]
  /\ UNCHANGED charges

\* The total of the fetched cart, then await stripe.charges.create(...)
Charge(p) ==
  LET c == procs[p] IN
  /\ c.op = "createOrder" /\ c.pc = "fetched"
  /\ IF \E k \in DOMAIN c.cart : c.cart[k].item = {}
       THEN /\ procs' = Fail(p, "TypeError")
            /\ UNCHANGED charges
       ELSE ChargeSucceeds(p) \/ ChargeFails(p)
  /\ UNCHANGED <<items, perms, cartItems, orders, nextItemId, nextCartId,
                 left, seqAdds>>
  /\ UNCHANGED authVars

\* Mutant: the Item's id left on the OrderItem.
OrderItemsKeepId(cart, userId) ==
  [k \in DOMAIN cart |->
     [id |-> TheItem(cart[k]).id,
      title |-> TheItem(cart[k]).title, price |-> TheItem(cart[k]).price,
      quantity |-> cart[k].quantity, user |-> userId]]

\* user.cart.map(cartItem => ({ ...cartItem.item, quantity, user }) without id)
OrderItems(cart, userId) ==
  [k \in DOMAIN cart |->
     [title |-> TheItem(cart[k]).title, price |-> TheItem(cart[k]).price,
      quantity |-> cart[k].quantity, user |-> userId]]

\* total: charge.amount, charge: charge.id, items: { create: orderItems }
NewOrder(c) ==
  LET charge == CHOOSE x \in c.charge : TRUE IN
  [id |-> Cardinality(orders) + 1, user |-> c.userId, total |-> charge.amount,
   charge |-> charge.id, items |-> OrderItems(c.cart, c.userId)]

\* await ctx.db.mutation.createOrder(...): the store writes the Order with its
\* OrderItems, or rejects the write.
PersistOrder(p) ==
  LET c == procs[p] IN
  /\ c.op = "createOrder" /\ c.pc = "charged"
  /\ \/ /\ orders' = orders \cup {NewOrder(c)}
        /\ procs' = [procs EXCEPT ![p].pc = "persisted", ![p].writes = @ + 1]
     \/ /\ procs' = Fail(p, "PersistenceError")
        /\ UNCHANGED orders
  /\ UNCHANGED <<items, perms, cartItems, charges, nextItemId, nextCartId,
                 left, seqAdds>>
  /\ UNCHANGED authVars

\* Mutant: the cart read again when it is cleared.
ClearTargetsRequeried(p) == {r.id : r \in {x \in cartItems : x.user = procs[p].userId}}

\* where: { id_in: cartItemIds }
ClearTargets(p) == CartItemIds(procs[p].cart)

\* await ctx.db.mutation.deleteManyCartItems(...), then return order
ClearCart(p) ==
  LET c == procs[p] IN
  /\ c.op = "createOrder" /\ c.pc = "persisted"
  /\ cartItems' = {r \in cartItems : r.id \notin ClearTargets(p)}
  /\ seqAdds' = Spoil(seqAdds, {r \in cartItems : r.id \in ClearTargets(p)})
  /\ procs' = [procs EXCEPT ![p].pc = "done", ![p].result = "ok",
                            ![p].writes = @ + 1]
  /\ UNCHANGED <<items, perms, orders, charges, nextItemId, nextCartId, left>>
  /\ UNCHANGED authVars

\* ------------------------------------------------------------ requestReset
\* A User row as a query without selection returns it.
UserRow(u) ==
  [email |-> u, password |-> accounts[u].password,
   resetToken |-> accounts[u].resetToken,
   resetTokenExpiry |-> accounts[u].resetTokenExpiry]

\* const user = await ctx.db.query.user({ where: { email: args.email } })
FetchUserByEmail(p) ==
  /\ Arrives(p)
  /\ \E email \in EmailInputs :
       procs' = [procs EXCEPT ![p] =
         [Request("requestReset", NoId) EXCEPT
            !.pc = "fetched", !.data = [email |-> email],
            !.found = {UserRow(u) : u \in {x \in Users : x = email}}]]
  /\ left' = left - 1
  /\ UNCHANGED <<shopVars, authVars>>

\* Date.now() + 3600000
ResetTokenExpiry(time) == time + ResetTokenLifetime

\* 'No such user found' for no row, else the new token and its expiry are
\* written to the user: await ctx.db.mutation.updateUser(...)
SetResetToken(p) ==
  LET c == procs[p] IN
  /\ c.op = "requestReset" /\ c.pc = "fetched"
  /\ IF c.found = {}
       THEN /\ procs' = Fail(p, "NotFound")
            /\ UNCHANGED <<accounts, nextToken>>
       ELSE /\ accounts' = [accounts EXCEPT ![c.data.email] =
                   [@ EXCEPT !.resetToken = {nextToken},
                             !.resetTokenExpiry = {ResetTokenExpiry(now)}]]
            /\ nextToken' = nextToken + 1
            /\ procs' = [procs EXCEPT ![p].pc = "written", ![p].writes = @ + 1]
  /\ UNCHANGED <<shopVars, left, now, spent>>

\* await transport.sendMail(...): the mail goes out, or the transport throws.
SendMail(p) ==
  /\ procs[p].op = "requestReset" /\ procs[p].pc = "written"
  /\ \/ procs' = [procs EXCEPT ![p].pc = "done", ![p].result = "ok"]
     \/ procs' = Fail(p, "MailError")
  /\ UNCHANGED <<shopVars, authVars, left>>

\* ----------------------------------------------------------- resetPassword
\* resetTokenExpiry_gte: Date.now() - 3600000
Unexpired(expiry, time) == expiry >= time - ResetTokenWindow

\* The users the query of resetPassword matches (a null field matches nothing).
UsersByToken(token) ==
  {u \in Users :
     /\ accounts[u].resetToken = {token}
     /\ \E e \in accounts[u].resetTokenExpiry : Unexpired(e, now)}

\* 'Passwords do not match', else
\* const [user] = await ctx.db.query.users({ where: { resetToken, resetTokenExpiry_gte } })
FindUserByToken(p) ==
  /\ Arrives(p)
  /\ \E token \in NoToken..(nextToken - 1), password \in NewPasswords,
        confirmPassword \in NewPasswords, oldPassword \in OldPasswords :
       LET c == [Request("resetPassword", NoId) EXCEPT
                   !.data = [resetToken |-> token, password |-> password,
                             confirmPassword |-> confirmPassword,
                             oldPassword |-> oldPassword]]
       IN procs' = [procs EXCEPT ![p] =
            IF password # confirmPassword
              THEN [c EXCEPT !.pc = "failed", !.result = "PasswordMismatch"]
              ELSE [c EXCEPT !.pc = "fetched",
                             !.found = {UserRow(u) : u \in UsersByToken(token)}]]
  /\ left' = left - 1
  /\ UNCHANGED <<shopVars, authVars>>

\* bcrypt.compare(password, hash)
Compare(password, hash) == hash = Hash(password)

\* 'This token is either invalid or expired' for no row, 'Invalid current
\* password' when args.oldPassword is not the fetched user's, else the new
\* hash is written and both reset fields are set to null.
ResetPassword(p) ==
  LET c == procs[p] IN
  /\ c.op = "resetPassword" /\ c.pc = "fetched"
  /\ IF c.found = {}
       THEN /\ procs' = Fail(p, "InvalidOrExpiredToken")
            /\ UNCHANGED <<accounts, spent>>
     ELSE LET user == CHOOSE r \in c.found : TRUE IN
       IF ~Compare(c.data.oldPassword, user.password)
         THEN /\ procs' = Fail(p, "InvalidCurrentPassword")
              /\ UNCHANGED <<accounts, spent>>
       ELSE /\ accounts' = [accounts EXCEPT ![user.email] =
                   [password |-> Hash(c.data.password), resetToken |-> {},
                    resetTokenExpiry |-> {}]]
            /\ spent' = spent \cup {c.data.resetToken}
            /\ procs' = [procs EXCEPT ![p].pc = "done", ![p].result = "ok",
                                      ![p].writes = @ + 1]
  /\ UNCHANGED <<shopVars, left, nextToken, now>>

\* Time passes.
Tick ==
  /\ now < MaxTicks * ClockStep
  /\ now' = now + ClockStep
  /\ UNCHANGED <<shopVars, procs, left, accounts, nextToken, spent>>

ResetSteps(p) ==
  \/ FetchUserByEmail(p)
  \/ SetResetToken(p)
  \/ SendMail(p)
  \/ FindUserByToken(p)
  \/ ResetPassword(p)

ItemSteps(p) ==
  \/ CreateItem(p)
  \/ FetchItem(p)
  \/ UpdateItem(p)
  \/ DeleteItem(p)
  \/ FetchCurrentUser(p)
  \/ UpdatePermissions(p)

CartSteps(p) ==
  \/ FetchExisting(p)
  \/ AddToCart(p)
  \/ FetchCartItem(p)
  \/ RemoveFromCart(p)
  \/ FetchCart(p)
  \/ Charge(p)
  \/ PersistOrder(p)
  \/ ClearCart(p)

\* The item, permission, cart and checkout resolvers.
Next == \E p \in Procs : Begin(p) \/ Return(p) \/ ItemSteps(p) \/ CartSteps(p)
Spec == Init /\ [][Next]_vars

\* The same resolvers, from a filled cart.
SpecOrders == InitOrders /\ [][Next]_vars

\* The item and permission resolvers.
NextItems == \E p \in Procs : Begin(p) \/ Return(p) \/ ItemSteps(p)
SpecItems == InitItems /\ [][NextItems]_vars

\* The cart and checkout resolvers.
NextCart == \E p \in Procs : Return(p) \/ CartSteps(p)
SpecCart == InitCart /\ [][NextCart]_vars

\* The password-reset resolvers and the clock.
NextReset == Tick \/ \E p \in Procs : Return(p) \/ ResetSteps(p)
SpecReset == InitReset /\ [][NextReset]_vars

\* A step a call in flight takes once the store has answered its query or
\* write, and the sending of the response.
StoreAnswers(p) ==
  \/ AddToCart(p)
  \/ RemoveFromCart(p)
  \/ PersistOrder(p)
  \/ ClearCart(p)
  \/ Return(p)

\* The cart and checkout resolvers with a store that answers every call and
\* an event loop that then runs the continuation.  Nothing makes the gateway
\* answer: stripe.charges.create is awaited with no timeout.
SpecCartLive ==
  InitCart /\ [][NextCart]_vars /\ \A p \in Procs : WF_vars(StoreAnswers(p))

\* ------------------------------------------------------------------ claims
\* The store and the gateway: what a request can change outside its own slot.
store == <<items, perms, cartItems, orders, charges>>

\* Slot p takes the step that ends the wait at position `from`.
Leaves(p, op, from) ==
  /\ procs[p].op = op /\ procs[p].pc = from
  /\ procs'[p].pc # from

RECURSIVE LineTotal(_)
\* The sum of price * quantity over the OrderItems of an Order.
LineTotal(lines) ==
  IF lines = <<>> THEN 0
  ELSE LineTotal(SubSeq(lines, 1, Len(lines) - 1))
       + lines[Len(lines)].price * lines[Len(lines)].quantity

\* C1: every Order's total equals the sum of price * quantity over its
\* OrderItems and equals the amount of the gateway charge it refers to.
C1_OrderTotalMatches ==
  \A o \in orders :
    /\ o.total = LineTotal(o.items)
    /\ \E k \in DOMAIN charges :
         charges[k].id = o.charge /\ charges[k].amount = o.total

\* An Order made from a cart holding an item of price 500 twice: 1000 charged.
C1_Witness ==
  \E o \in orders :
    /\ \E k \in DOMAIN o.items : o.items[k].price = 500 /\ o.items[k].quantity = 2
    /\ o.total = 1000

\* C2: the step in which the gateway answers a createOrder with an error
\* leaves Orders (with their OrderItems) and CartItems as they are and ends
\* the request in failure, and the request has written nothing before it.
C2_ChargeFailureWritesNothing ==
  [][\A p \in Procs :
       (procs'[p].gateway = "error" /\ procs[p].gateway # "error")
         => /\ orders' = orders
            /\ cartItems' = cartItems
            /\ procs'[p].pc = "failed"
            /\ procs'[p].result = "PaymentFailed"
            /\ procs'[p].writes = 0]_vars

\* A checkout of a cart that holds something has been refused by the gateway,
\* and the cart's rows are all still there.
C2_Witness ==
  \E p \in Procs :
    /\ procs[p].gateway = "error"
    /\ procs[p].cart # <<>>
    /\ \A k \in DOMAIN procs[p].cart :
         \E r \in cartItems : r.id = procs[p].cart[k].id
                              /\ r.quantity = procs[p].cart[k].quantity
    /\ orders = {}

\* C3: the step that clears the cart after a checkout removes the CartItems
\* whose ids the request captured when it read the cart, and no other row,
\* and changes none; the captured cart is the same from the read to the end.
C3_ClearsExactlyCaptured ==
  [][\A p \in Procs :
       /\ Leaves(p, "createOrder", "persisted")
            => /\ procs'[p].pc = "done"
               /\ cartItems' = {r \in cartItems : r.id \notin CartItemIds(procs[p].cart)}
       /\ (procs[p].op = "createOrder" /\ procs'[p].op = "createOrder")
            => procs'[p].cart = procs[p].cart]_vars

\* A checkout has succeeded, and a CartItem its user added after the cart was
\* read is still in the store.
C3_Witness ==
  \E p \in Procs :
    /\ procs[p].op = "createOrder" /\ procs[p].pc = "done"
    /\ procs[p].cart # <<>>
    /\ \E r \in cartItems :
         r.user = procs[p].userId /\ r.id \notin CartItemIds(procs[p].cart)

\* C4: no CartItem is in the charged total of more than one successful charge.
C4_NoCartItemChargedTwice ==
  \A j, k \in DOMAIN charges :
    j # k => charges[j].covers \cap charges[k].covers = {}

C6_SequentialAdds ==
  \A u \in Users : \A i \in 0..nextItemId :
    Adds(seqAdds, u, i) # Dirty =>
      LET rows == {r \in cartItems : r.user = u /\ r.item = i} IN
      IF Adds(seqAdds, u, i) = 0 THEN rows = {}
      ELSE /\ Cardinality(rows) = 1
           /\ \A r \in rows : r.quantity = Adds(seqAdds, u, i)

\* Three addToCart calls for a pair have run one after the other.
C6_Witness ==
  \E x \in DOMAIN seqAdds : seqAdds[x] = 3

\* C7: the step in which a guard (identity, ownership, permission) rejects a
\* request ends it in failure with the store and the gateway as they were,
\* and the request has issued no write and no charge before it.
C7_GuardBeforeWrite ==
  [][\A p \in Procs :
       (procs'[p].result \in GuardErrors /\ procs[p].result \notin GuardErrors)
         => /\ procs'[p].pc = "failed"
            /\ store' = store
            /\ procs'[p].writes = 0
            /\ procs'[p].gateway = ""]_vars

\* An updateItem refused for ownership beside a createOrder refused for
\* identity.
C7_Witness ==
  \E p, q \in Procs :
    /\ procs[p].op = "updateItem" /\ procs[p].result = "OwnershipDenied"
    /\ procs[q].op = "createOrder" /\ procs[q].result = "NotAuthenticated"

\* The capability updateItem / deleteItem asks for.
NeededTag(op) == IF op = "updateItem" THEN "ITEMUPDATE" ELSE "ITEMDELETE"

C9_AnonymousGetsNotAuthenticated ==
  \A p \in Procs :
    (procs[p].op \in {"createItem", "updateItem", "deleteItem", "updatePermissions"}
       /\ procs[p].userId = NoId)
    => /\ procs[p].result \notin {"OwnershipDenied", "PermissionDenied"}
       /\ (procs[p].pc \in {"done", "failed"} /\ procs[p].result # "TypeError")
            => procs[p].result = "NotAuthenticated"

\* C10: a user's permission set changes only in the write step of an
\* updatePermissions whose caller is authenticated and whose fetched
\* permissions hold ADMIN or PERMISSIONUPDATE; that step makes the target's
\* set exactly args.permissions and changes no other user's.
C10_PermissionsReplaced ==
  [][/\ (perms' # perms) =>
          \E p \in Procs :
            /\ Leaves(p, "updatePermissions", "fetched") /\ procs'[p].pc = "done"
            /\ procs[p].userId # NoId
            /\ procs[p].currentUser \cap {"ADMIN", "PERMISSIONUPDATE"} # {}
     /\ \A p \in Procs :
          (Leaves(p, "updatePermissions", "fetched") /\ procs'[p].pc = "done")
          => perms' = [perms EXCEPT ![procs[p].target] = procs[p].permissions]
    ]_vars

\* An administrator has replaced u1's signup permissions by USER alone.
C10_Witness ==
  \E p \in Procs :
    /\ procs[p].op = "updatePermissions" /\ procs[p].pc = "done"
    /\ procs[p].target = "u1" /\ procs[p].permissions = {"USER"}
    /\ perms["u1"] = {"USER"}

\* C11: an Order row, once in the store, is never changed or removed by any
\* step of any resolver (its total, charge reference and OrderItems stay as
\* written), and no OrderItem carries the id of an Item.
C11_OrderImmutable ==
  [][/\ \A o \in orders : o \in orders'
     /\ \A o \in orders' : \A k \in DOMAIN o.items : "id" \notin DOMAIN o.items[k]
    ]_vars

\* An Order holds two of an item at price 500, and that item has since been
\* repriced or deleted.
C11_Witness ==
  \E o \in orders : \E k \in DOMAIN o.items :
    /\ o.items[k].price = 500 /\ o.items[k].quantity = 2 /\ o.total = 1300
    /\ \A i \in items : i.id = 1 => i.price # 500

\* C12: every charge of a positive amount the gateway has made has an Order carrying its id, or
\* its id on record outside the call that made it (the resolver keeps the
\* charge in a local only and writes no such record), or the call that made
\* it is still on its way to writing the Order.
C12_ChargeIdOnRecord ==
  \A k \in DOMAIN charges :
    \/ charges[k].amount = 0
    \/ \E o \in orders : o.charge = charges[k].id
    \/ \E p \in Procs :
         /\ procs[p].op = "createOrder" /\ procs[p].pc = "charged"
         /\ \E c \in procs[p].charge : c.id = charges[k].id

\* The positions of a createOrder call follow one another: authenticated with
\* the cart read ("fetched"), total computed and charged ("charged"), Order
\* written ("persisted"), cart cleared ("done"), or "failed".
CheckoutMoves ==
  {<<"idle", "fetched">>, <<"idle", "failed">>, <<"fetched", "charged">>,
   <<"fetched", "failed">>, <<"charged", "persisted">>, <<"charged", "failed">>,
   <<"persisted", "done">>}

\* One step keeps the order of a checkout: a charge is made only by the step
\* from "fetched" to "charged", for the total of the cart read; the gateway is
\* not called again once it has answered; an Order is written only by the
\* step from "charged" of a call whose charge succeeded, and carries that
\* charge; CartItems go only in the step from "persisted"; a failed Order
\* write leaves CartItems and Orders as they are.
CheckoutInOrder ==
  /\ \A p \in Procs :
       (procs'[p].op = "createOrder" /\ procs'[p].pc # procs[p].pc)
         => /\ <<procs[p].pc, procs'[p].pc>> \in CheckoutMoves
            /\ cartItems' # cartItems
                 => procs[p].pc = "persisted" /\ orders \cap {o \in orders' :
                      \E c \in procs[p].charge : o.charge = c.id} # {}
            /\ (procs[p].pc = "charged" /\ procs'[p].pc = "failed")
                 => cartItems' = cartItems /\ orders' = orders
  /\ \A p \in Procs :
       (procs[p].op = "createOrder" /\ procs'[p].op = "createOrder"
          /\ procs[p].gateway # "")
         => procs'[p].gateway = procs[p].gateway
  /\ charges' # charges
       => \E p \in Procs :
            /\ Leaves(p, "createOrder", "fetched") /\ procs'[p].pc = "charged"
            /\ procs[p].gateway = "" /\ procs'[p].gateway = "ok"
            /\ Len(charges') = Len(charges) + 1
            /\ SubSeq(charges', 1, Len(charges)) = charges
            /\ charges'[Len(charges')].amount = CartAmount(procs[p].cart)
  /\ orders' # orders
       => \E p \in Procs :
            /\ Leaves(p, "createOrder", "charged") /\ procs'[p].pc = "persisted"
            /\ procs[p].gateway = "ok"
            /\ \E o \in orders' \ orders : \E c \in procs[p].charge :
                 /\ orders' = orders \cup {o}
                 /\ o.charge = c.id
                 /\ \E k \in DOMAIN charges : charges[k].id = c.id

\* C13 as stated: a checkout keeps the order above, and every call that
\* passes the identity check has the gateway called (once) when it moves on
\* from the read of the cart.
C13_ChargedOncePerAuthenticated ==
  [][/\ CheckoutInOrder
     /\ \A p \in Procs :
          Leaves(p, "createOrder", "fetched") => procs'[p].gateway \in {"ok", "error"}
    ]_vars

\* C13 as the code has it: a checkout keeps the order above; the gateway is
\* called at most once per call, and once for every call that passes the
\* identity check and reads a cart whose entries all still have their Item (the
\* total of any other cart cannot be computed: the call fails before the
\* gateway is reached).
C13_CheckoutInOrder ==
  [][/\ CheckoutInOrder
     /\ \A p \in Procs :
          Leaves(p, "createOrder", "fetched")
            => IF \A k \in DOMAIN procs[p].cart : procs[p].cart[k].item # {}
                 THEN procs'[p].gateway \in {"ok", "error"}
                 ELSE /\ procs'[p].gateway = "" /\ procs'[p].pc = "failed"
                      /\ store' = store
    ]_vars

\* A charge of the filled cart succeeded and the Order write failed: the
\* call has ended in failure and the cart's rows are all still there.
C13_Witness ==
  \E p \in Procs :
    /\ procs[p].op = "createOrder" /\ procs[p].result = "PersistenceError"
    /\ procs[p].gateway = "ok" /\ Len(procs[p].cart) = 2
    /\ \A k \in DOMAIN procs[p].cart :
         \E r \in cartItems : r.id = procs[p].cart[k].id

\* C14: the step that ends a removeFromCart answers NotFound when the lookup
\* found no row and OwnershipDenied when the row found belongs to another
\* user, both with the CartItems as they were; otherwise it removes the row
\* of that id, whose stored owner is the caller, and no other row (or the
\* row is gone by then and the store refuses, with nothing removed).
C14_RemovesOwnRowOnly ==
  [][\A p \in Procs :
       Leaves(p, "removeFromCart", "fetched")
         => IF procs[p].cartItem = {}
              THEN procs'[p].result = "NotFound" /\ cartItems' = cartItems
            ELSE IF \E r \in procs[p].cartItem : r.user # procs[p].userId
              THEN procs'[p].result = "OwnershipDenied" /\ cartItems' = cartItems
            ELSE \/ /\ procs'[p].result = "ok"
                    /\ \E r \in cartItems :
                         /\ r.id = procs[p].id /\ r.user = procs[p].userId
                         /\ cartItems' = cartItems \ {r}
                 \/ /\ procs'[p].result = "PersistenceError"
                    /\ cartItems' = cartItems
                    /\ \A r \in cartItems : r.id # procs[p].id
    ]_vars

\* A user has been refused the removal of another user's CartItem, which is
\* still in the store, after a removal of a row by its owner.
C14_Witness ==
  \E p, q \in Procs :
    /\ procs[p].op = "removeFromCart" /\ procs[p].result = "OwnershipDenied"
    /\ procs[p].userId \in Users
    /\ \E r \in cartItems : r.id = procs[p].id /\ r.user # procs[p].userId
    /\ procs[q].op = "removeFromCart" /\ procs[q].result = "ok"

\* C15: every createOrder call that waits for the gateway's answer ends, with
\* the cart cleared or in failure.
C15_CheckoutEnds ==
  \A p \in Procs :
    (procs[p].op = "createOrder" /\ procs[p].pc = "fetched")
      ~> (procs[p].pc \in {"done", "failed"})

RECURSIVE TotalQuantity(_)
\* The sum of the quantities of a set of CartItem rows.
TotalQuantity(rows) ==
  IF rows = {} THEN 0
  ELSE LET r == CHOOSE x \in rows : TRUE
       IN r.quantity + TotalQuantity(rows \ {r})

\* The quantity the store holds for the pair (u, i).
PairQuantity(rows, u, i) == TotalQuantity({r \in rows : r.user = u /\ r.item = i})

\* C16: every addToCart call that completes raises the quantity held for its
\* (user, item) pair by one in its write step, whatever other calls for the
\* pair are in flight: n completed calls raise it by n.
C16_NoLostIncrement ==
  [][\A p \in Procs :
       (Leaves(p, "addToCart", "fetched") /\ procs'[p].pc = "done")
         => PairQuantity(cartItems', procs[p].userId, procs[p].id)
              = PairQuantity(cartItems, procs[p].userId, procs[p].id) + 1
    ]_vars

\* C17: a createOrder of an authenticated caller whose cart is empty is taken
\* on, with the empty cart as read; its next step submits a charge of amount
\* 0 (which the gateway makes or refuses); and when the charge was made, the
\* Order written has no OrderItems and the charged amount, 0, as its total.
C17_EmptyCartCheckout ==
  [][\A p \in Procs :
       /\ (procs[p].pc = "idle" /\ procs'[p].op = "createOrder"
              /\ procs'[p].userId # NoId /\ CartOf(procs'[p].userId) = <<>>)
            => procs'[p].pc = "fetched" /\ procs'[p].cart = <<>>
       /\ (Leaves(p, "createOrder", "fetched") /\ procs[p].cart = <<>>)
            => \/ /\ procs'[p].pc = "charged"
                  /\ Len(charges') = Len(charges) + 1
                  /\ charges'[Len(charges')].amount = 0
               \/ /\ procs'[p].result = "PaymentFailed"
                  /\ charges' = charges
       /\ (Leaves(p, "createOrder", "charged") /\ procs[p].cart = <<>>
              /\ procs'[p].pc = "persisted")
            => \E o \in orders' \ orders : \E c \in procs[p].charge :
                 /\ o.items = <<>> /\ o.total = c.amount /\ o.total = 0
                 /\ o.charge = c.id /\ o.user = procs[p].userId
    ]_vars

\* An Order with no OrderItems and total 0 is in the store, for a charge of 0.
C17_Witness ==
  \E o \in orders :
    /\ o.items = <<>> /\ o.total = 0
    /\ \E k \in DOMAIN charges : charges[k].id = o.charge /\ charges[k].amount = 0

\* C18: a requestReset stores an expiry one hour after the time of issue; a
\* resetPassword finds a user by the token only while the time is not later
\* than the stored expiry; and a resetPassword that found none ends with the
\* invalid-or-expired error, the accounts as they were.
C18_TokenExpiresAfterHour ==
  [][\A p \in Procs :
       /\ (Leaves(p, "requestReset", "fetched") /\ procs'[p].pc = "written")
            => accounts'[procs[p].data.email].resetTokenExpiry
                 = {now + ResetTokenLifetime}
       /\ (procs[p].pc = "idle" /\ procs'[p].op = "resetPassword")
            => \A a \in procs'[p].found : \A e \in a.resetTokenExpiry : now <= e
       /\ (Leaves(p, "resetPassword", "fetched") /\ procs[p].found = {})
            => /\ procs'[p].result = "InvalidOrExpiredToken"
               /\ accounts' = accounts
    ]_vars

\* C19: the step in which a resetPassword succeeds sets the new password and
\* leaves the user's resetToken and resetTokenExpiry null; a token by which a
\* password was set changes no password again; and the step in which a
\* resetPassword fails (passwords not matching, token invalid or expired,
\* current password wrong) leaves every account as it was, the call having
\* written nothing.
C19_TokenSpentOnce ==
  [][\A p \in Procs :
       /\ (Leaves(p, "resetPassword", "fetched") /\ procs'[p].pc = "done")
            => \A a \in procs[p].found :
                 /\ accounts'[a.email].resetToken = {}
                 /\ accounts'[a.email].resetTokenExpiry = {}
                 /\ procs[p].data.resetToken \in spent => accounts' = accounts
       /\ (procs'[p].op = "resetPassword" /\ procs'[p].pc = "failed"
              /\ procs[p].pc # "failed")
            => /\ accounts' = accounts
               /\ procs'[p].writes = 0
               /\ procs'[p].result \in {"PasswordMismatch", "InvalidOrExpiredToken",
                                        "InvalidCurrentPassword"}
    ]_vars

\* C20: an updateItem or deleteItem of an authenticated caller whose lookup
\* found no Item ends with NotFound, having written nothing.
C20_MissingItemNotFound ==
  \A p \in Procs :
    (procs[p].op \in {"updateItem", "deleteItem"} /\ procs[p].userId # NoId
       /\ procs[p].pc \in {"done", "failed"} /\ procs[p].item = {})
    => procs[p].result = "NotFound" /\ procs[p].writes = 0
====
